---- MODULE Spec2Model ----
(***************************************************************************)
(* A model of the EDINET balance-sheet pipeline of bs-visualizer           *)
(* (src/utils.py): filer resolution (get_edinet_code), document location   *)
(* (search_latest_yuho), fact extraction (get_val_by_tag), balance         *)
(* reconciliation and the stage sequencing of fetch_financial_data.        *)
(*                                                                         *)
(* Text is modelled as a sequence of one-character strings (or of tokens   *)
(* for headers and context references), so that prefix and substring tests *)
(* and number parsing are computed, not assumed.                           *)
(***************************************************************************)
EXTENDS Integers, Sequences, FiniteSets, TLC

VARIABLES
    rin,        \* reconciliation: the seven extracted values
    rout,       \* reconciliation: the returned summary, or None
    soup,       \* extraction: the parsed document, a sequence of tagged facts
    local_names,\* extraction: the accepted tag spellings of one line item
    xres,       \* extraction: what get_val_by_tag produced, or None
    today,      \* scan: datetime.date.today() as a day ordinal
    i,          \* scan: the loop variable of range(365)
    scanPc,     \* scan: "idle", "scanning" or "done"
    docResult,  \* scan: the value search_latest_yuho returned
    queried,    \* scan (history): number of index queries issued
    firstDate,  \* scan (history): the date of the first query
    prevDate,   \* scan (history): the date of the query before the last
    lastDate,   \* scan (history): the date of the last query
    lastListed, \* scan (history): what the last response listed for the filer
    table,      \* resolver: the code list data frame
    ticker,     \* resolver: the ticker the user typed
    resolved,   \* resolver: what get_edinet_code returned, or None
    pc,         \* pipeline: the stage fetch_financial_data is about to run
    started,    \* pipeline (history): the stages started, in order
    edinet_code,\* pipeline: local of fetch_financial_data
    company_name,\* pipeline: local of fetch_financial_data
    doc_id,     \* pipeline: local of fetch_financial_data
    result      \* pipeline: the value returned, or the exception raised

vars == <<rin, rout, soup, local_names, xres, today, i, scanPc, docResult,
          queried, firstDate, prevDate, lastDate, lastListed, table, ticker,
          resolved, pc, started, edinet_code, company_name, doc_id, result>>

reconcileVars == <<rin, rout>>
extractVars == <<soup, local_names, xres>>
scanVars == <<today, i, scanPc, docResult, queried, firstDate, prevDate,
              lastDate, lastListed>>
resolveVars == <<table, ticker, resolved>>
pipelineVars == <<pc, started, edinet_code, company_name, doc_id, result>>

\* Python's None, where the program holds a string or None.
None == "None"

\* A variable that holds no record yet.
Unset == [unset |-> TRUE]

\* No date yet (dates are day ordinals, never negative).
NoDate == 0 - 1

(***************************************************************************)
(* Bounds of the model.                                                    *)
(***************************************************************************)
\* Reconciliation inputs range over -MaxSmall..MaxSmall plus sample amounts.
MaxSmall == 1

\* A document holds at most MaxFacts tagged facts.
MaxFacts == 3

\* A day's index lists at most MaxResults records.
MaxResults == 2

\* today is one of MaxTodayShift + 1 consecutive days.
MaxTodayShift == 1

\* A code list holds at most MaxRows rows.
MaxRows == 2

\* An extracted bundle holds at most MaxFiles files.
MaxFiles == 2

(***************************************************************************)
(* Balance reconciliation: src/utils.py lines 264-308.                     *)
(***************************************************************************)
Abs(x) == IF x < 0 THEN -x ELSE x

\* 1. Trust Total Assets if available.
TrustTotalAssets(ca, nca, total_assets) ==
    IF total_assets = 0 THEN ca + nca ELSE total_assets

PlugNonCurrentAssetsSwapped(ca, nca, total_assets) ==
    IF ca + nca < total_assets THEN total_assets - nca ELSE nca

\* 2. Assets breakdown: the remainder is assumed other/non-current.
PlugNonCurrentAssets(ca, nca, total_assets) ==
    IF ca + nca < total_assets THEN total_assets - ca ELSE nca

\* 3. If Total Liabilities is missing, infer it.
InferTotalLiabilities(na, total_assets, total_liabilities) ==
    IF total_liabilities = 0 /\ na > 0
    THEN total_assets - na
    ELSE total_liabilities

\* 3. If Net Assets is missing, infer it.
InferNetAssets(na, total_assets, total_liabilities) ==
    IF na = 0 /\ total_liabilities > 0
    THEN total_assets - total_liabilities
    ELSE na

PlugNonCurrentLiabilitiesSkipped(cl, ncl, total_liabilities) == ncl

\* Liabilities breakdown: the shortfall is added to non-current liabilities.
PlugNonCurrentLiabilities(cl, ncl, total_liabilities) ==
    IF cl + ncl < total_liabilities THEN total_liabilities - cl ELSE ncl

ForceBalancePositiveOnly(cl, ncl, na, total_assets) ==
    LET limit_diff == total_assets - (cl + ncl + na)
    IN  IF limit_diff > 0 THEN na + limit_diff ELSE na

\* Final force balance: net assets is the plug.
ForceBalance(cl, ncl, na, total_assets) ==
    LET limit_diff == total_assets - (cl + ncl + na)
    IN  IF Abs(limit_diff) > 0 THEN na + limit_diff ELSE na

\* The whole block, in the order of the code.
Reconcile(ca, nca, cl, ncl, na, total_assets_fact, total_liabilities_fact) ==
    LET total_assets == TrustTotalAssets(ca, nca, total_assets_fact)
        nca2 == PlugNonCurrentAssets(ca, nca, total_assets)
        total_liabilities ==
            InferTotalLiabilities(na, total_assets, total_liabilities_fact)
        na2 == InferNetAssets(na, total_assets, total_liabilities)
        ncl2 == PlugNonCurrentLiabilities(cl, ncl, total_liabilities)
        na3 == ForceBalance(cl, ncl2, na2, total_assets)
    IN  [CurrentAssets |-> ca,
         NonCurrentAssets |-> nca2,
         CurrentLiabilities |-> cl,
         NonCurrentLiabilities |-> ncl2,
         NetAssets |-> na3,
         TotalAssets |-> total_assets]

\* render_company_analysis recomputes the total from the two asset fields.
RenderedTotalAssets(data) == data.CurrentAssets + data.NonCurrentAssets

Small == (0 - MaxSmall)..MaxSmall

\* The values get_val_by_tag can hand to the block: integers, 0 when absent.
ReconcileInputs ==
    [ca : Small \cup {100},
     nca : Small \cup {50, 100},
     cl : Small \cup {50},
     ncl : Small \cup {30},
     na : Small \cup {100},
     total_assets : Small \cup {100, 200},
     total_liabilities : Small \cup {80}]

ReconcileIdle == rin = Unset /\ rout = Unset
ExtractIdle == soup = <<>> /\ local_names = <<>> /\ xres = Unset
ScanIdle ==
    /\ today = 0 /\ i = 0 /\ scanPc = "idle" /\ docResult = None
    /\ queried = 0 /\ firstDate = NoDate /\ prevDate = NoDate
    /\ lastDate = NoDate /\ lastListed = Unset
ResolveIdle == table = Unset /\ ticker = Unset /\ resolved = Unset
PipelineIdle ==
    /\ pc = "idle" /\ started = <<>> /\ edinet_code = None
    /\ company_name = None /\ doc_id = None /\ result = Unset

InitReconcile ==
    /\ rin \in ReconcileInputs
    /\ rout = Unset
    /\ ExtractIdle /\ ScanIdle /\ ResolveIdle /\ PipelineIdle

ReconcileStep ==
    /\ rin # Unset
    /\ rout = Unset
    /\ rout' = Reconcile(rin.ca, rin.nca, rin.cl, rin.ncl, rin.na,
                         rin.total_assets, rin.total_liabilities)
    /\ UNCHANGED <<rin, extractVars, scanVars, resolveVars, pipelineVars>>

NextReconcile == ReconcileStep

SpecReconcile == InitReconcile /\ [][NextReconcile]_vars

(***************************************************************************)
(* Text helpers.                                                           *)
(***************************************************************************)
RECURSIVE SeqsUpTo(_, _)
\* The sequences over S of length at most n.
SeqsUpTo(S, n) ==
    IF n = 0 THEN {<<>>}
    ELSE LET shorter == SeqsUpTo(S, n - 1)
         IN  shorter \cup {Append(q, x) : q \in shorter, x \in S}

StartsWith(s, prefix) ==
    Len(prefix) <= Len(s) /\ SubSeq(s, 1, Len(prefix)) = prefix

EndsWith(s, suffix) ==
    Len(suffix) <= Len(s)
        /\ SubSeq(s, Len(s) - Len(suffix) + 1, Len(s)) = suffix

\* Python's "pat in s".
Contains(s, pat) ==
    \E k \in 1..(Len(s) - Len(pat) + 1) : SubSeq(s, k, k + Len(pat) - 1) = pat

RECURSIVE LStrip(_)
LStrip(s) == IF s # <<>> /\ Head(s) = " " THEN LStrip(Tail(s)) ELSE s

RECURSIVE RStrip(_)
RStrip(s) ==
    IF s # <<>> /\ s[Len(s)] = " " THEN RStrip(SubSeq(s, 1, Len(s) - 1)) ELSE s

\* str.strip()
Strip(s) == RStrip(LStrip(s))

DigitChars == <<"0", "1", "2", "3", "4", "5", "6", "7", "8", "9">>

IsDigit(c) == \E k \in 1..Len(DigitChars) : DigitChars[k] = c

DigitValue(c) == (CHOOSE k \in 1..Len(DigitChars) : DigitChars[k] = c) - 1

AllDigits(s) == \A k \in 1..Len(s) : IsDigit(s[k])

RECURSIVE DigitsToNat(_)
DigitsToNat(s) ==
    IF s = <<>> THEN 0
    ELSE 10 * DigitsToNat(SubSeq(s, 1, Len(s) - 1)) + DigitValue(s[Len(s)])

\* float(val_str) on the decimal notations without exponent, and on "nan" and
\* "inf": the float's sign, integer part and whether it has a fraction, or a
\* ValueError (ok = FALSE).
ParseFloat(s) ==
    LET signed == s # <<>> /\ Head(s) \in {"+", "-"}
        neg == signed /\ Head(s) = "-"
        body == IF signed THEN Tail(s) ELSE s
        dots == {k \in 1..Len(body) : body[k] = "."}
        dot == IF dots = {} THEN Len(body) + 1 ELSE CHOOSE k \in dots : TRUE
        ip == SubSeq(body, 1, dot - 1)
        fp == SubSeq(body, dot + 1, Len(body))
    IN  IF body = <<"n", "a", "n">>
        THEN [ok |-> TRUE, kind |-> "nan", neg |-> neg, int |-> 0, frac |-> FALSE]
        ELSE IF body = <<"i", "n", "f">>
        THEN [ok |-> TRUE, kind |-> "inf", neg |-> neg, int |-> 0, frac |-> FALSE]
        ELSE IF /\ Cardinality(dots) <= 1
                /\ AllDigits(ip) /\ AllDigits(fp)
                /\ Len(ip) + Len(fp) > 0
        THEN [ok |-> TRUE, kind |-> "finite", neg |-> neg,
              int |-> DigitsToNat(ip), frac |-> DigitsToNat(fp) # 0]
        ELSE [ok |-> FALSE, kind |-> "ValueError", neg |-> FALSE, int |-> 0,
              frac |-> FALSE]

\* int(val): truncation toward zero; ValueError on nan, OverflowError on inf.
IntOfFloat(f) ==
    IF f.kind = "nan" THEN [kind |-> "raise", exc |-> "ValueError", val |-> 0]
    ELSE IF f.kind = "inf"
    THEN [kind |-> "raise", exc |-> "OverflowError", val |-> 0]
    ELSE [kind |-> "value", exc |-> None,
          val |-> IF f.neg THEN 0 - f.int ELSE f.int]

(***************************************************************************)
(* Fact extraction: get_val_by_tag, src/utils.py lines 209-246.            *)
(* A fact is [tag, contextRef, text]; a tag name and a context reference   *)
(* are token sequences, a text is a character sequence.                    *)
(***************************************************************************)
\* re.compile(f".*:{name}$|^{name}$") searched in a tag name.
TagMatches(tag, name) == tag = name \/ EndsWith(tag, <<":">> \o name)

RECURSIVE Candidates(_, _)
\* candidates: for each name in turn, every matching element in document order.
Candidates(names, doc) ==
    IF names = <<>> THEN <<>>
    ELSE SelectSeq(doc, LAMBDA el : TagMatches(el.tag, Head(names)))
            \o Candidates(Tail(names), doc)

Prior == <<"Prior">>
CurrentYear == <<"Current", "Year">>
CurrentQuarter == <<"Current", "Quarter">>
CurrentYearInstant == <<"Current", "Year", "Instant">>
CurrentQuarterInstant == <<"Current", "Quarter", "Instant">>

\* The if/elif chain of lines 232-240.
Score(context_ref) ==
    IF Contains(context_ref, Prior) THEN 0
    ELSE IF Contains(context_ref, CurrentYearInstant)
            \/ Contains(context_ref, CurrentQuarterInstant) THEN 3
    ELSE IF Contains(context_ref, CurrentYear)
            \/ Contains(context_ref, CurrentQuarter) THEN 2
    ELSE 1

BetterOrEqual(score, priority_score) == score >= priority_score

\* Line 242: a candidate replaces the best one only with a higher score.
Better(score, priority_score) == score > priority_score

RECURSIVE SelectLoop(_, _, _)
\* The loop of lines 222-244 from the state (best_val, priority_score); an
\* exception of int(val) leaves the loop and the function.
SelectLoop(cands, best_val, priority_score) ==
    IF cands = <<>> THEN [kind |-> "value", exc |-> None, val |-> best_val]
    ELSE
        LET el == Head(cands)
            val_str == Strip(el.text)
            val == ParseFloat(val_str)
            score == Score(el.contextRef)
            converted == IntOfFloat(val)
        IN  IF val_str = <<>> THEN SelectLoop(Tail(cands), best_val, priority_score)
            ELSE IF ~val.ok THEN SelectLoop(Tail(cands), best_val, priority_score)
            ELSE IF ~Better(score, priority_score)
            THEN SelectLoop(Tail(cands), best_val, priority_score)
            ELSE IF converted.kind = "raise" THEN converted
            ELSE SelectLoop(Tail(cands), converted.val, score)

get_val_by_tag(names, doc) ==
    LET candidates == Candidates(names, doc)
    IN  IF candidates = <<>>
        THEN [kind |-> "value", exc |-> None, val |-> 0]
        ELSE SelectLoop(candidates, 0, 0 - 1)

\* The tag lists fetch_financial_data asks for (lines 254-262), tokenised.
CurrentAssetsNames == << <<"Current", "Assets">>, <<"Assets", "Current">> >>
AssetsNames == << <<"Assets">> >>

\* Tag names of a document.
TagCurrentAssets == <<"jppfs_cor", ":", "Current", "Assets">>
TagAssetsCurrent == <<"Assets", "Current">>
TagOtherCurrentAssets == <<"jppfs_cor", ":", "Other", "Current", "Assets">>
TagAssets == <<"jppfs_cor", ":", "Assets">>

\* Context references of a document.
CtxCurrentYearInstant == <<"Current", "Year", "Instant">>
CtxCurrentYearDuration == <<"Current", "Year", "Duration">>
CtxFilingDateInstant == <<"FilingDate", "Instant">>
CtxPrior1YearInstant == <<"Prior", "1", "Year", "Instant">>
CtxCurrentQuarterInstant == <<"Current", "Quarter", "Instant">>
CtxCurrentYearInstantPriorMember ==
    <<"Current", "Year", "Instant", "_", "Prior", "Member">>

Facts ==
    [tag : {TagCurrentAssets},
     contextRef : {CtxCurrentYearInstant, CtxCurrentYearDuration,
                   CtxFilingDateInstant, CtxPrior1YearInstant},
     text : {<<"1", "0", "0">>}]
    \cup
    [tag : {TagCurrentAssets},
     contextRef : {CtxCurrentYearInstant, CtxPrior1YearInstant},
     text : {<<"2", "5", "0">>}]
    \cup
    [tag : {TagAssetsCurrent},
     contextRef : {CtxCurrentYearInstant, CtxPrior1YearInstant},
     text : {<<"-", "5">>, <<"1", "2", ".", "7">>}]
    \cup
    [tag : {TagCurrentAssets},
     contextRef : {CtxCurrentYearInstant},
     text : {<<>>, <<"a", "b", "c">>, <<"n", "a", "n">>, <<"i", "n", "f">>,
             <<" ", "7", " ">>}]
    \cup
    [tag : {TagCurrentAssets},
     contextRef : {CtxCurrentQuarterInstant, CtxCurrentYearInstantPriorMember},
     text : {<<"4", "2">>}]
    \cup
    [tag : {TagOtherCurrentAssets, TagAssets},
     contextRef : {CtxCurrentYearInstant},
     text : {<<"9", "9", "9">>}]

InitExtract ==
    /\ soup \in SeqsUpTo(Facts, MaxFacts)
    /\ local_names \in {CurrentAssetsNames, AssetsNames}
    /\ xres = Unset
    /\ ReconcileIdle /\ ScanIdle /\ ResolveIdle /\ PipelineIdle

ExtractStep ==
    /\ local_names # <<>>
    /\ xres = Unset
    /\ xres' = get_val_by_tag(local_names, soup)
    /\ UNCHANGED <<soup, local_names, reconcileVars, scanVars, resolveVars,
                   pipelineVars>>

NextExtract == ExtractStep

SpecExtract == InitExtract /\ [][NextExtract]_vars

(***************************************************************************)
(* Document location: search_latest_yuho, src/utils.py lines 97-138.       *)
(* A date is a day ordinal.  A response of the daily index is an exception *)
(* of requests.get, a status code, a body that is not JSON, or a result    *)
(* list of records [edinetCode, docTypeCode, docID].                       *)
(***************************************************************************)
\* range(365)
WindowDays == 365

target_docs == {"120", "140", "160"}

\* dtype in target_docs
InTargetDocs(dtype) == dtype \in target_docs

DateBackwardsFromYesterday(day, offset) == day - offset - 1

\* today - datetime.timedelta(days=i)
DateOf(day, offset) == day - offset

RECURSIVE FirstTarget(_, _)
\* The inner loop of lines 129-134: the docID of the first record of the
\* filer with a target document type is returned, whatever it is.
FirstTarget(results, code) ==
    IF results = <<>> THEN [returned |-> FALSE, docID |-> None]
    ELSE LET item == Head(results)
         IN  IF item.edinetCode = code /\ InTargetDocs(item.docTypeCode)
             THEN [returned |-> TRUE, docID |-> item.docID]
             ELSE FirstTarget(Tail(results), code)

\* One iteration of the day loop on the response res (lines 120-136).
HandleDay(res, code) ==
    IF res.kind = "exception" THEN [returned |-> FALSE, docID |-> None]
    ELSE IF res.status_code # 200 THEN [returned |-> FALSE, docID |-> None]
    ELSE IF res.kind = "not_json" THEN [returned |-> FALSE, docID |-> None]
    ELSE IF res.results = <<>> THEN [returned |-> FALSE, docID |-> None]
    ELSE FirstTarget(res.results, code)

\* The filer searched for, and another one.
Filer == "E02144"
OtherFiler == "E01777"

IndexRecords ==
    [edinetCode : {Filer}, docTypeCode : {"120", "140", "160", "350"},
     docID : {"S100AAAA", None}]
    \cup
    {[edinetCode |-> Filer, docTypeCode |-> "120", docID |-> "S100BBBB"],
     [edinetCode |-> OtherFiler, docTypeCode |-> "120", docID |-> "S100CCCC"]}

Responses ==
    {[kind |-> "exception", status_code |-> 0, results |-> <<>>],
     [kind |-> "status", status_code |-> 404, results |-> <<>>],
     [kind |-> "status", status_code |-> 500, results |-> <<>>],
     [kind |-> "not_json", status_code |-> 200, results |-> <<>>]}
    \cup
    [kind : {"json"}, status_code : {200},
     results : SeqsUpTo(IndexRecords, MaxResults)]

\* (history) What a response lists for the filer: whether it is a fetched
\* index with a record of the filer of an annual, quarterly or semi-annual
\* type, and the docID of the first such record.
Listed(res, code) ==
    LET qualifying ==
            {k \in 1..Len(res.results) :
                /\ res.results[k].edinetCode = code
                /\ res.results[k].docTypeCode \in {"120", "140", "160"}}
    IN  IF res.kind = "json" /\ res.status_code = 200 /\ qualifying # {}
        THEN [found |-> TRUE,
              docID |-> res.results[CHOOSE k \in qualifying :
                                       \A j \in qualifying : k <= j].docID]
        ELSE [found |-> FALSE, docID |-> None]

Todays == WindowDays..(WindowDays + MaxTodayShift)

InitScan ==
    /\ today \in Todays
    /\ i = 0
    /\ scanPc = "scanning"
    /\ docResult = None
    /\ queried = 0
    /\ firstDate = NoDate /\ prevDate = NoDate /\ lastDate = NoDate
    /\ lastListed = [found |-> FALSE, docID |-> None]
    /\ ReconcileIdle /\ ExtractIdle /\ ResolveIdle /\ PipelineIdle

\* One pass of the for loop: the query of day i and what is done with the
\* response; the return after the last day is part of the last pass.
ScanDay ==
    /\ scanPc = "scanning"
    /\ i < WindowDays
    /\ \E res \in Responses :
        LET date == DateOf(today, i)
            day == HandleDay(res, Filer)
        IN  /\ queried' = queried + 1
            /\ firstDate' = IF queried = 0 THEN date ELSE firstDate
            /\ prevDate' = lastDate
            /\ lastDate' = date
            /\ lastListed' = Listed(res, Filer)
            /\ IF day.returned
               THEN /\ scanPc' = "done"
                    /\ docResult' = day.docID
                    /\ i' = i
               ELSE /\ i' = i + 1
                    /\ scanPc' = IF i + 1 = WindowDays THEN "done" ELSE "scanning"
                    /\ docResult' = None
    /\ UNCHANGED <<today, reconcileVars, extractVars, resolveVars, pipelineVars>>

NextScan == ScanDay

SpecScan == InitScan /\ [][NextScan]_vars

(***************************************************************************)
(* Filer resolution: get_edinet_code, src/utils.py lines 67-95.            *)
(* A table is [columns, rows]; a column is [header, field], the header a   *)
(* token sequence and the field the name under which a row holds the       *)
(* column's cell.  A security code cell is an integer or NaN (a blank CSV  *)
(* field).  The header tokens "ShokenCode", "EDINET-Code-Zenkaku" and      *)
(* "TeishutsushaMei" stand for the Japanese header texts of lines 78-80.   *)
(***************************************************************************)
RECURSIVE NatToStr(_)
\* str() of a non-negative integer.
NatToStr(n) ==
    IF n < 10 THEN <<DigitChars[n + 1]>>
    ELSE NatToStr(n \div 10) \o <<DigitChars[(n % 10) + 1]>>

\* str(ticker): the ticker is the text typed in the sidebar, or an integer
\* (the module's own test call).
Str(t) == IF t.int THEN NatToStr(t.n) ELSE t.text

\* [c for c in cols if key in c], for one or two keys.
ColumnsWith(cols, keys) ==
    SelectSeq(cols, LAMBDA c : \E key \in keys : Contains(c.header, <<key>>))

\* code_list_df[sec_col].astype(str): a column with a blank cell is read as
\* float64, so its codes print with ".0" and the blank as "nan".
SecCodeText(df, sec_col, k) ==
    LET cell == df.rows[k][sec_col.field]
        float_column ==
            \E j \in 1..Len(df.rows) : df.rows[j][sec_col.field].nan
    IN  IF cell.nan THEN <<"n", "a", "n">>
        ELSE IF float_column THEN NatToStr(cell.n) \o <<".", "0">>
        ELSE NatToStr(cell.n)

SecCodeEquals(code_text, ticker_text) == code_text = ticker_text

\* .str.startswith(ticker, na=False)
SecCodeMatches(code_text, ticker_text) == StartsWith(code_text, ticker_text)

get_edinet_code(ticker_code, code_list_df) ==
    IF code_list_df = Unset
    THEN [kind |-> "raise", ecode |-> None, cname |-> None]
    ELSE
        LET ticker_text == Str(ticker_code)
            cols == code_list_df.columns
            sec_code_col == ColumnsWith(cols, {"ShokenCode"})
            edinet_code_col ==
                ColumnsWith(cols, {"EDINET-Code-Zenkaku", "EdinetCode"})
            company_name_col ==
                ColumnsWith(cols, {"TeishutsushaMei", "SubmitterName"})
            target ==
                {k \in 1..Len(code_list_df.rows) :
                    SecCodeMatches(SecCodeText(code_list_df, sec_code_col[1], k),
                                   ticker_text)}
            first == CHOOSE k \in target : \A j \in target : k <= j
        IN  IF sec_code_col = <<>> \/ edinet_code_col = <<>>
            THEN [kind |-> "return", ecode |-> None, cname |-> None]
            ELSE IF target # {}
            THEN [kind |-> "return",
                  ecode |-> code_list_df.rows[first][edinet_code_col[1].field],
                  cname |-> IF company_name_col # <<>>
                            THEN code_list_df.rows[first][company_name_col[1].field]
                            ELSE "Unknown"]
            ELSE [kind |-> "return", ecode |-> None, cname |-> None]

ColEdinet == [header |-> <<"EDINET-Code-Zenkaku">>, field |-> "edinet"]
ColEdinetEn == [header |-> <<"EdinetCode">>, field |-> "edinet"]
ColName == [header |-> <<"TeishutsushaMei">>, field |-> "name"]
ColNameEn == [header |-> <<"TeishutsushaMei", "(Eiji)">>, field |-> "nameEn"]
ColSubmitterName == [header |-> <<"SubmitterName">>, field |-> "nameEn"]
ColAddress == [header |-> <<"Shozaichi">>, field |-> "address"]
ColSec == [header |-> <<"ShokenCode">>, field |-> "sec"]

\* Header rows of a code list: the published one, an English one, and ones
\* with a column missing or the name columns in another order.
Layouts ==
    {<<ColEdinet, ColName, ColNameEn, ColAddress, ColSec>>,
     <<ColEdinetEn, ColSubmitterName, ColSec>>,
     <<ColEdinet, ColName, ColAddress>>,
     <<ColName, ColSec>>,
     <<ColEdinet, ColSec>>,
     <<ColSec, ColNameEn, ColName, ColEdinet>>}

TableRows ==
    {[sec |-> c, edinet |-> f[1], name |-> f[2], nameEn |-> f[3],
      address |-> "Aichi"] :
        c \in {[nan |-> FALSE, n |-> 72030], [nan |-> FALSE, n |-> 72031],
               [nan |-> FALSE, n |-> 67580], [nan |-> TRUE, n |-> 0]},
        f \in {<<"E02144", "Toyota Jidosha", "TOYOTA MOTOR">>,
               <<"E01777", "Sony Group", "SONY GROUP">>}}

Tables == [columns : Layouts, rows : SeqsUpTo(TableRows, MaxRows)]

Tickers ==
    {[int |-> TRUE, n |-> 7203, text |-> <<>>],
     [int |-> FALSE, n |-> 0, text |-> <<"7", "2", "0", "3", "0">>],
     [int |-> FALSE, n |-> 0, text |-> <<"6", "7", "5", "8">>],
     [int |-> FALSE, n |-> 0, text |-> <<"9", "9", "9", "9">>],
     [int |-> FALSE, n |-> 0, text |-> <<>>]}

Ticker7203 == [int |-> TRUE, n |-> 7203, text |-> <<>>]

InitResolve ==
    /\ table \in Tables
    /\ ticker \in Tickers
    /\ resolved = Unset
    /\ ReconcileIdle /\ ExtractIdle /\ ScanIdle /\ PipelineIdle

ResolveStep ==
    /\ table # Unset
    /\ resolved = Unset
    /\ resolved' = get_edinet_code(ticker, table)
    /\ UNCHANGED <<table, ticker, reconcileVars, extractVars, scanVars,
                   pipelineVars>>

NextResolve == ResolveStep

SpecResolve == InitResolve /\ [][NextResolve]_vars

(***************************************************************************)
(* The request: fetch_financial_data, src/utils.py lines 140-311.          *)
(* pc is the stage about to run.  A result is an error value, a summary,   *)
(* or an exception that left the function.                                 *)
(***************************************************************************)
ErrorValue(error, details) ==
    [kind |-> "error", error |-> error, details |-> details, data |-> Unset]

Raised(exc) ==
    [kind |-> "raised", error |-> None, details |-> exc, data |-> Unset]

\* What get_edinet_code_list hands back: a data frame, or None after a
\* failed download.
CodeLists ==
    {[columns |-> <<ColEdinet, ColName, ColNameEn, ColAddress, ColSec>>,
      rows |-> <<r1, r2>>] :
        r1 \in {r \in TableRows : r.sec.n = 72030 /\ r.edinet = "E02144"},
        r2 \in {r \in TableRows : r.sec.n = 67580 /\ r.edinet = "E01777"}}
    \cup {[columns |-> <<ColEdinet, ColName, ColAddress>>, rows |-> <<>>]}

\* The tag lists of lines 254-262, tokenised, in the order of the calls.
LineItemNames ==
    << << <<"Current", "Assets">>, <<"Assets", "Current">> >>,
       << <<"Non", "Current", "Assets">>, <<"Assets", "Non", "Current">> >>,
       << <<"Current", "Liabilities">>, <<"Liabilities", "Current">> >>,
       << <<"Non", "Current", "Liabilities">>,
          <<"Liabilities", "Non", "Current">> >>,
       << <<"Net", "Assets">>, <<"Equity">> >>,
       << <<"Assets">> >>,
       << <<"Liabilities">> >> >>

\* Lines 248-311: the seven extractions and the reconciliation; an exception
\* of any of them is caught at line 310.
ParseAndReconcile(doc, name) ==
    LET got == [n \in 1..Len(LineItemNames) |->
                    get_val_by_tag(LineItemNames[n], doc)]
        failed == {n \in 1..Len(LineItemNames) : got[n].kind = "raise"}
        first == CHOOSE n \in failed : \A m \in failed : n <= m
        summary == Reconcile(got[1].val, got[2].val, got[3].val, got[4].val,
                             got[5].val, got[6].val, got[7].val)
    IN  IF failed # {}
        THEN ErrorValue("Parsing Failed", got[first].exc)
        ELSE [kind |-> "summary", error |-> None, details |-> None,
              data |-> [CompanyName |-> name] @@ summary]

\* Files of an extracted bundle: [root, file], both token sequences.
XbrlPublic ==
    [root |-> <<"doc_", "XBRL", "PublicDoc">>, file |-> <<"jpcrp", ".xbrl">>]
XbrlCalculation ==
    [root |-> <<"doc_", "XBRL", "PublicDoc">>,
     file |-> <<"jpcrp", "Cc", ".xbrl">>]
XbrlAudit ==
    [root |-> <<"doc_", "XBRL", "AuditDoc">>, file |-> <<"jpaud", ".xbrl">>]
HtmlPublic ==
    [root |-> <<"doc_", "XBRL", "PublicDoc">>, file |-> <<"0101010", ".htm">>]

Archives == SeqsUpTo({XbrlPublic, XbrlCalculation, XbrlAudit, HtmlPublic}, MaxFiles)

\* Lines 190-198: is there a .xbrl file without "Cc" under PublicDoc.
HasXbrlFile(files) ==
    \E k \in 1..Len(files) :
        /\ EndsWith(files[k].file, <<".xbrl">>)
        /\ ~Contains(files[k].file, <<"Cc">>)
        /\ Contains(files[k].root, <<"PublicDoc">>)

\* Facts of the documents of a request.
RequestFacts ==
    {[tag |-> TagCurrentAssets, contextRef |-> CtxCurrentYearInstant,
      text |-> <<"1", "0", "0">>],
     [tag |-> <<"jppfs_cor", ":", "Non", "Current", "Assets">>,
      contextRef |-> CtxCurrentYearInstant, text |-> <<"5", "0">>],
     [tag |-> TagAssets, contextRef |-> CtxCurrentYearInstant,
      text |-> <<"1", "0", "0">>],
     [tag |-> <<"jppfs_cor", ":", "Net", "Assets">>,
      contextRef |-> CtxCurrentYearInstant, text |-> <<"n", "a", "n">>],
     [tag |-> <<"jppfs_cor", ":", "Liabilities">>,
      contextRef |-> CtxPrior1YearInstant, text |-> <<"3", "0">>]}

StageOrder ==
    <<"load_table", "resolve", "locate", "download", "unpack", "find_xbrl",
      "parse">>

InitRequest ==
    /\ ticker \in Tickers
    /\ table = Unset
    /\ resolved = Unset
    /\ pc = "load_table"
    /\ started = <<>>
    /\ edinet_code = None /\ company_name = None /\ doc_id = None
    /\ result = Unset
    /\ ReconcileIdle /\ ExtractIdle /\ ScanIdle

Finish(value) == pc' = "done" /\ result' = value

\* Lines 145-151.
LoadTable ==
    /\ pc = "load_table"
    /\ started' = Append(started, "load_table")
    /\ \/ /\ table' \in CodeLists
          /\ pc' = "resolve"
          /\ UNCHANGED result
       \/ /\ table' = Unset
          /\ Finish(ErrorValue("Failed to load EDINET Code List (returned None)",
                               None))
    /\ UNCHANGED <<ticker, resolved, edinet_code, company_name, doc_id,
                   reconcileVars, extractVars, scanVars>>

\* Lines 154-160.
ResolveTicker ==
    /\ pc = "resolve"
    /\ started' = Append(started, "resolve")
    /\ resolved' = get_edinet_code(ticker, table)
    /\ IF resolved'.kind = "raise"
       THEN /\ Finish(ErrorValue("Error finding ticker", "ValueError"))
            /\ UNCHANGED <<edinet_code, company_name>>
       ELSE /\ edinet_code' = resolved'.ecode
            /\ company_name' = resolved'.cname
            /\ IF resolved'.ecode = None
               THEN Finish(ErrorValue("Ticker not found or no EDINET Code", None))
               ELSE pc' = "locate" /\ UNCHANGED result
    /\ UNCHANGED <<ticker, table, doc_id, reconcileVars, extractVars, scanVars>>

\* Lines 163-165: search_latest_yuho returns a docID or None.
LocateDocument ==
    /\ pc = "locate"
    /\ started' = Append(started, "locate")
    /\ \E found \in {None, "S100AAAA"} :
        /\ doc_id' = found
        /\ IF found = None
           THEN Finish(ErrorValue(
                    "No Annual/Quarterly Report found in the last 365 days", None))
           ELSE pc' = "download" /\ UNCHANGED result
    /\ UNCHANGED <<ticker, table, resolved, edinet_code, company_name,
                   reconcileVars, extractVars, scanVars>>

\* Lines 175-177: requests.get is not inside a try block.
Download ==
    /\ pc = "download"
    /\ started' = Append(started, "download")
    /\ \/ \E status_code \in {200, 404, 500} :
            IF status_code # 200
            THEN Finish(ErrorValue("Failed to download document", None))
            ELSE pc' = "unpack" /\ UNCHANGED result
       \/ Finish(Raised("ConnectionError"))
    /\ UNCHANGED <<ticker, table, resolved, edinet_code, company_name, doc_id,
                   reconcileVars, extractVars, scanVars>>

\* Lines 181-187: the body is written to disk and opened as a ZIP archive,
\* not inside a try block.
Unpack ==
    /\ pc = "unpack"
    /\ started' = Append(started, "unpack")
    /\ \/ pc' = "find_xbrl" /\ UNCHANGED result
       \/ Finish(Raised("BadZipFile"))
    /\ UNCHANGED <<ticker, table, resolved, edinet_code, company_name, doc_id,
                   reconcileVars, extractVars, scanVars>>

\* Lines 190-201.
FindXbrl ==
    /\ pc = "find_xbrl"
    /\ started' = Append(started, "find_xbrl")
    /\ \E files \in Archives :
        IF HasXbrlFile(files)
        THEN pc' = "parse" /\ UNCHANGED result
        ELSE Finish(ErrorValue("XBRL file not found in archive", None))
    /\ UNCHANGED <<ticker, table, resolved, edinet_code, company_name, doc_id,
                   reconcileVars, extractVars, scanVars>>

\* Lines 204-311: the file is read and parsed, the line items extracted and
\* reconciled; whatever is raised on the way is caught at line 310.
Parse ==
    /\ pc = "parse"
    /\ started' = Append(started, "parse")
    /\ \/ \E doc \in SeqsUpTo(RequestFacts, MaxFacts) :
            /\ soup' = doc
            /\ Finish(ParseAndReconcile(doc, company_name))
       \/ /\ soup' = <<>>
          /\ Finish(ErrorValue("Parsing Failed", "UnicodeDecodeError"))
    /\ UNCHANGED <<ticker, table, resolved, edinet_code, company_name, doc_id,
                   reconcileVars, local_names, xres, scanVars>>

NextRequest ==
    \/ LoadTable
    \/ ResolveTicker
    \/ LocateDocument
    \/ Download
    \/ Unpack
    \/ FindXbrl
    \/ Parse

SpecRequest == InitRequest /\ [][NextRequest]_vars

(***************************************************************************)
(* Properties of the reconciliation block (checked under SpecReconcile).   *)
(***************************************************************************)
Reconciled == rout # Unset

\* C1: for every input tuple the returned summary satisfies
\* CurrentAssets + NonCurrentAssets = TotalAssets (the total the chart draws
\* is the total the summary reports), also when an explicit total-assets
\* fact is smaller than ca + nca.
C1_AssetsBalance ==
    Reconciled => RenderedTotalAssets(rout) = rout.TotalAssets

\* C2: for every input tuple, negative values and all-zero input included,
\* CurrentLiabilities + NonCurrentLiabilities + NetAssets = TotalAssets.
C2_LiabilitiesBalance ==
    Reconciled =>
        rout.CurrentLiabilities + rout.NonCurrentLiabilities + rout.NetAssets
            = rout.TotalAssets

\* The force balance acted on a negative input: the residual was not zero and
\* net assets moved.
C2_Witness ==
    /\ Reconciled
    /\ rin.cl < 0
    /\ rin.total_liabilities # 0
    /\ rout.NetAssets # rin.na
    /\ rout.NetAssets # rout.TotalAssets - rin.total_liabilities

\* The example of the force-balance property: total assets 200, cl = 50,
\* ncl = 30, na = 100 and no total-liabilities fact.
ForceBalanceExample ==
    /\ rin.ca = 100 /\ rin.nca = 100 /\ rin.total_assets = 200
    /\ rin.cl = 50 /\ rin.ncl = 30 /\ rin.na = 100
    /\ rin.total_liabilities = 0

\* The shortfall of the liabilities side against the trusted total assets.
Shortfall ==
    TrustTotalAssets(rin.ca, rin.nca, rin.total_assets)
        - (rin.cl + rin.ncl + rin.na)

\* C3 as stated: the example returns NetAssets = 120 with cl = 50, ncl = 30,
\* and whenever cl + ncl + na is below the trusted total assets the shortfall
\* ends up in net assets.
C3_ShortfallToNetAssets ==
    Reconciled =>
        /\ ForceBalanceExample =>
              /\ rout.NetAssets = 120
              /\ rout.CurrentLiabilities = 50
              /\ rout.NonCurrentLiabilities = 30
        /\ Shortfall > 0 => rout.NetAssets = rin.na + Shortfall

\* C3 as amended: with no total-liabilities fact and positive net assets the
\* total liabilities are derived as total assets - na, so the shortfall is
\* plugged into non-current liabilities and net assets are returned unchanged
\* (the example returns NetAssets = 100, cl = 50, ncl = 50); with no
\* total-liabilities fact, net assets not positive and cl + ncl not negative,
\* the shortfall ends up in net assets.
C3_ShortfallPlugged ==
    Reconciled =>
        /\ ForceBalanceExample =>
              /\ rout.NetAssets = 100
              /\ rout.CurrentLiabilities = 50
              /\ rout.NonCurrentLiabilities = 50
        /\ (rin.total_liabilities = 0 /\ rin.na > 0 /\ Shortfall > 0) =>
              /\ rout.NetAssets = rin.na
              /\ rout.CurrentLiabilities = rin.cl
              /\ rout.NonCurrentLiabilities = rin.ncl + Shortfall
        /\ (rin.total_liabilities = 0 /\ rin.na <= 0 /\ rin.cl + rin.ncl >= 0
                /\ Shortfall > 0) =>
              /\ rout.NetAssets = rin.na + Shortfall
              /\ rout.CurrentLiabilities = rin.cl
              /\ rout.NonCurrentLiabilities = rin.ncl

C3_Witness ==
    /\ Reconciled
    /\ ForceBalanceExample
    /\ rout.NonCurrentLiabilities = 50

\* C4: with an explicit total-assets fact T and ca + nca < T the summary has
\* TotalAssets = T, CurrentAssets = ca and NonCurrentAssets = T - ca
\* (ca = 100, nca = 50, T = 200 gives 100); with no total-assets fact
\* TotalAssets = ca + nca and both asset fields are returned unchanged.
C4_PlugToNonCurrent ==
    Reconciled =>
        /\ (rin.total_assets # 0 /\ rin.ca + rin.nca < rin.total_assets) =>
              /\ rout.TotalAssets = rin.total_assets
              /\ rout.CurrentAssets = rin.ca
              /\ rout.NonCurrentAssets = rin.total_assets - rin.ca
        /\ (rin.ca = 100 /\ rin.nca = 50 /\ rin.total_assets = 200) =>
              (rout.NonCurrentAssets = 100 /\ rout.TotalAssets = 200)
        /\ rin.total_assets = 0 =>
              /\ rout.TotalAssets = rin.ca + rin.nca
              /\ rout.CurrentAssets = rin.ca
              /\ rout.NonCurrentAssets = rin.nca

C4_Witness ==
    /\ Reconciled
    /\ rin.ca = 100 /\ rin.nca = 50 /\ rin.total_assets = 200
    /\ rout.NonCurrentAssets = 100

(***************************************************************************)
(* Properties of the fact extractor (checked under SpecExtract).           *)
(***************************************************************************)
Extracted == xres # Unset

\* The context priority as the claim words it.
ClaimedPriority(ctx) ==
    IF Contains(ctx, Prior) THEN 0
    ELSE IF Contains(ctx, CurrentYearInstant)
            \/ Contains(ctx, CurrentQuarterInstant) THEN 3
    ELSE IF Contains(ctx, CurrentYear) \/ Contains(ctx, CurrentQuarter) THEN 2
    ELSE 1

\* A fact with a non-empty text that float() accepts.
Usable(el) == Strip(el.text) # <<>> /\ ParseFloat(Strip(el.text)).ok

\* The candidates with a numeric value, in the order they are encountered.
UsableCandidates == SelectSeq(Candidates(local_names, soup), Usable)

\* The first usable candidate of maximal priority.
FirstOfMaxPriority ==
    LET c == UsableCandidates
        top == CHOOSE k \in 1..Len(c) :
                  \A j \in 1..Len(c) :
                      /\ ClaimedPriority(c[j].contextRef)
                            <= ClaimedPriority(c[k].contextRef)
                      /\ ClaimedPriority(c[j].contextRef)
                            = ClaimedPriority(c[k].contextRef) => k <= j
    IN  c[top]

\* The integer a fact's text denotes (truncated toward zero).
IntegerOf(el) == IntOfFloat(ParseFloat(Strip(el.text))).val

\* C5: the value get_val_by_tag returns is that of the first encountered
\* fact among the numeric candidates of maximal context priority, whatever
\* the order of the list.
C5_ContextPriority ==
    (Extracted /\ xres.kind = "value" /\ UsableCandidates # <<>>) =>
        xres.val = IntegerOf(FirstOfMaxPriority)

\* A prior-period fact precedes a current-instant fact of another value,
\* two current-instant facts tie, and the first current-instant value is
\* returned.
C5_Witness ==
    /\ Extracted
    /\ xres.kind = "value"
    /\ Len(UsableCandidates) = 3
    /\ ClaimedPriority(UsableCandidates[1].contextRef) = 0
    /\ ClaimedPriority(UsableCandidates[2].contextRef) = 3
    /\ ClaimedPriority(UsableCandidates[3].contextRef) = 3
    /\ IntegerOf(UsableCandidates[1]) # IntegerOf(UsableCandidates[2])
    /\ IntegerOf(UsableCandidates[3]) # IntegerOf(UsableCandidates[2])
    /\ xres.val = IntegerOf(UsableCandidates[2])

\* C6: get_val_by_tag returns a number and raises nothing, whatever the
\* facts: unusable values ('nan' and 'inf' included) are skipped, and with no
\* usable candidate the line item is 0.
C6_ExtractionNeverRaises ==
    Extracted =>
        /\ xres.kind = "value"
        /\ UsableCandidates = <<>> => xres.val = 0

(***************************************************************************)
(* Properties of the document locator (checked under SpecScan).            *)
(***************************************************************************)
ScanDone == scanPc = "done"

\* The parts of C7 about the order of the scan: the first query is for
\* today, each later query is for an earlier date than the one before, the
\* scan never goes past a day whose index lists a qualifying record, and it
\* ends there with the docID of that record.
BackwardShortCircuit ==
    /\ queried >= 1 => firstDate = today
    /\ queried >= 2 => lastDate < prevDate
    /\ scanPc = "scanning" => ~lastListed.found
    /\ (ScanDone /\ lastListed.found) => docResult = lastListed.docID

\* The scan ended on the index of the day 40 days ago.
HitFortyDaysAgo == ScanDone /\ lastListed.found /\ lastDate = today - 40

\* C7 as stated: backward short-circuiting scan, and a record found on the
\* day 40 days ago is returned after scanning exactly 40 days.
C7_ScanFortyDays ==
    /\ BackwardShortCircuit
    /\ HitFortyDaysAgo => queried = 40

\* C7 as amended: backward short-circuiting scan, and a record found on the
\* day 40 days ago is returned by the 41st query: today and the 39 days
\* before it are the 40 days scanned without a match, the day 40 days ago is
\* the 41st day scanned.
C7_ScanFortyOneDays ==
    /\ BackwardShortCircuit
    /\ HitFortyDaysAgo => (queried = 41 /\ i = 40)

C7_Witness == HitFortyDaysAgo /\ docResult = "S100BBBB"

\* C8: None is returned only after every day of the window has been queried
\* without a qualifying record; a failed or empty day only moves the scan on.
C8_NotFoundOnlyAfterWindow ==
    (ScanDone /\ docResult = None) =>
        (queried = WindowDays /\ ~lastListed.found)

(***************************************************************************)
(* Properties of the filer resolver (checked under SpecResolve).           *)
(***************************************************************************)
Resolved == resolved # Unset

\* text starts with the ticker string
IsPrefixOf(t, text) ==
    Len(t) <= Len(text) /\ \A k \in 1..Len(t) : text[k] = t[k]

\* The columns the resolver needs: a security code and a filer code column.
SecColumns ==
    {k \in 1..Len(table.columns) : table.columns[k].field = "sec"}
EdinetColumns ==
    {k \in 1..Len(table.columns) : table.columns[k].field = "edinet"}
NameColumns ==
    {k \in 1..Len(table.columns) :
        table.columns[k].field \in {"name", "nameEn"}}
RequiredColumnsFound == SecColumns # {} /\ EdinetColumns # {}

\* The security code of row k as text.
CodeText(k) ==
    LET cell == table.rows[k].sec
        blanks == \E j \in 1..Len(table.rows) : table.rows[j].sec.nan
    IN  IF cell.nan THEN <<"n", "a", "n">>
        ELSE IF blanks THEN NatToStr(cell.n) \o <<".", "0">>
        ELSE NatToStr(cell.n)

\* The ticker string.
TickerText == IF ticker.int THEN NatToStr(ticker.n) ELSE ticker.text

MatchingRows ==
    {k \in 1..Len(table.rows) : IsPrefixOf(TickerText, CodeText(k))}

FirstMatchingRow == CHOOSE k \in MatchingRows : \A j \in MatchingRows : k <= j

\* The entity name of a row: the cell of the first name column, "Unknown"
\* when the table has no name column.
EntityName(k) ==
    IF NameColumns = {} THEN "Unknown"
    ELSE LET c == CHOOSE a \in NameColumns : \A b \in NameColumns : a <= b
         IN  table.rows[k][table.columns[c].field]

\* C10: the result is the filer identifier and entity name of the first row,
\* in table order, whose security code as text starts with the ticker
\* (ticker 7203 resolves against code 72030), and (None, None) exactly when
\* no row has such a code or a required column is not identified.
C10_PrefixFirstMatch ==
    Resolved =>
        /\ resolved.kind = "return"
        /\ (RequiredColumnsFound /\ MatchingRows # {}) =>
              /\ resolved.ecode = table.rows[FirstMatchingRow].edinet
              /\ resolved.cname = EntityName(FirstMatchingRow)
        /\ (resolved.ecode = None /\ resolved.cname = None)
              <=> (~RequiredColumnsFound \/ MatchingRows = {})

\* Ticker 7203 against two rows with codes 7203x of different filers, none
\* equal to the ticker: the first row's filer is returned.
C10_Witness ==
    /\ Resolved
    /\ ticker = Ticker7203
    /\ Len(table.rows) = 2
    /\ MatchingRows = {1, 2}
    /\ table.rows[1].edinet # table.rows[2].edinet
    /\ NameColumns # {}
    /\ resolved.ecode = table.rows[1].edinet
    /\ resolved.cname = table.rows[1].name

(***************************************************************************)
(* Properties of the request (checked under SpecRequest).                  *)
(***************************************************************************)
RequestDone == pc = "done"

SummaryFields ==
    {"CompanyName", "CurrentAssets", "NonCurrentAssets", "CurrentLiabilities",
     "NonCurrentLiabilities", "NetAssets", "TotalAssets"}

\* C9: the stages run in their fixed order, each at most once; a request
\* ends with an error value or with a summary of all seven fields, never
\* otherwise; and an error value ends it at the stage that failed.
C9_NoPartialSuccess ==
    /\ started = SubSeq(StageOrder, 1, Len(started))
    /\ RequestDone =>
          \/ result.kind = "error" /\ result.error # None
          \/ result.kind = "summary" /\ SummaryFields \subseteq DOMAIN result.data
    /\ ~RequestDone => result = Unset

====
